---------------------------- MODULE Spec2Model ----------------------------
(* Model of swoc::DiscreteRange / swoc::DiscreteSpace                        *)
(* (swoc++/include/swoc/DiscreteRange.h).                                    *)
(*                                                                           *)
(* The space is held as the in-order list of its nodes (_list) and the shape *)
(* of the tree that hangs from _root.  A node is a record                   *)
(* [min, max, payload]; the i-th node of the list is the i-th node of the    *)
(* tree in order.  The metric is an unsigned integer of small width, so      *)
(* prefix increment at MAX and prefix decrement at MIN wrap around.          *)
EXTENDS Integers, Sequences, FiniteSets, TLC

\* ------------------------------------------------------------------ bounds
\* Greatest metric value of the modelled metric type (the least is MIN).
MetricMax == 3
\* Greatest payload value; payloads are 0..PayloadMax, 0 is PAYLOAD().
PayloadMax == 1
\* Operations whose result would hold more nodes than this are not taken.
MaxNodes == 4

\* ------------------------------------------------------------------ metric
\* detail::minimum<M>() and detail::maximum<M>()
MIN == 0
MAX == MetricMax
Metric == MIN..MAX
Payload == 0..PayloadMax

\* ++m on the metric: wraps at MAX.
Inc(m) == IF m = MAX THEN MIN ELSE m + 1
\* --m on the metric: wraps at MIN.
Dec(m) == IF m = MIN THEN MAX ELSE m - 1

\* ------------------------------------------------------------------ DiscreteRange
Range(lo, hi) == [min |-> lo, max |-> hi]
\* DiscreteRange(): the empty range [MAX, MIN].
EmptyRange == Range(MAX, MIN)
\* DiscreteRange::empty
empty(r) == r.min > r.max
\* DiscreteRange::contains
contains(r, m) == r.min <= m /\ m <= r.max
\* DiscreteRange::is_left_adjacent_to
is_left_adjacent_to(this, that) ==
    IF this.max < that.min THEN Inc(this.max) = that.min ELSE FALSE
\* DiscreteRange::left_edge_relationship
left_edge_relationship(this, that) ==
    IF this.max < that.max
      THEN (IF Inc(this.max) < that.max THEN "GAP" ELSE "ADJ")
      ELSE (IF this.min >= that.min THEN "NONE" ELSE "OVLP")
\* DiscreteRange::has_intersection_with
has_intersection_with(this, that) ==
    \/ (that.min <= this.min /\ this.min <= that.max)
    \/ (this.min <= that.min /\ that.min <= this.max)
\* DiscreteRange::is_superset_of
is_superset_of(this, that) == this.min <= that.min /\ that.max <= this.max
\* DiscreteRange::is_subset_of
is_subset_of(this, that) == is_superset_of(that, this)
\* DiscreteRange::is_adjacent_to
is_adjacent_to(this, that) ==
    is_left_adjacent_to(this, that) \/ is_left_adjacent_to(that, this)
\* relationship as it would be without the test for equal ranges.
relationship_noequal(this, that) ==
    IF has_intersection_with(this, that)
      THEN (IF is_subset_of(this, that) THEN "SUBSET"
            ELSE IF is_superset_of(this, that) THEN "SUPERSET"
            ELSE "OVERLAP")
    ELSE IF is_adjacent_to(this, that) THEN "ADJACENT"
    ELSE "NONE"
\* DiscreteRange::relationship.  The intersection test it names,
\* has_intersection, is has_intersection_with: the class declares no other.
relationship(this, that) ==
    IF has_intersection_with(this, that)
      THEN (IF this = that THEN "EQUAL"
            ELSE IF is_subset_of(this, that) THEN "SUBSET"
            ELSE IF is_superset_of(this, that) THEN "SUPERSET"
            ELSE "OVERLAP")
    ELSE IF is_adjacent_to(this, that) THEN "ADJACENT"
    ELSE "NONE"
\* hull as it would be without the tests for an empty operand.
hull_noempty(this, that) ==
    Range(IF this.min < that.min THEN this.min ELSE that.min,
          IF this.max > that.max THEN this.max ELSE that.max)
\* DiscreteRange::hull
hull(this, that) ==
    IF empty(this) THEN that
    ELSE IF empty(that) THEN this
    ELSE Range(IF this.min < that.min THEN this.min ELSE that.min,
               IF this.max > that.max THEN this.max ELSE that.max)
\* DiscreteRange::operator|= : the value of *this after this |= that.
hull_assign(this, that) ==
    IF empty(this) THEN that
    ELSE IF ~empty(that)
      THEN Range(IF that.min < this.min THEN that.min ELSE this.min,
                 IF that.max > this.max THEN that.max ELSE this.max)
    ELSE this

\* ------------------------------------------------------------------ nodes and list
\* DiscreteSpace::Node(min, max, payload)
Node(lo, hi, p) == [min |-> lo, max |-> hi, payload |-> p]
\* Node::range
range_of(n) == Range(n.min, n.max)

\* IntrusiveDList::insert_before(spot, node): node takes index i.
InsertAt(s, i, e) == SubSeq(s, 1, i - 1) \o <<e>> \o SubSeq(s, i, Len(s))
\* IntrusiveDList::erase(node)
RemoveAt(s, i) == SubSeq(s, 1, i - 1) \o SubSeq(s, i + 1, Len(s))
\* Linkage::next_ptr; 0 stands for nullptr.
next(s, i) == IF i = 0 \/ i >= Len(s) THEN 0 ELSE i + 1
\* Linkage::prev_ptr
prev(s, i) == IF i <= 1 THEN 0 ELSE i - 1
\* DiscreteSpace::head and _list.tail()
head(s) == IF Len(s) > 0 THEN 1 ELSE 0
tail(s) == Len(s)


\* ------------------------------------------------------------------ tree
\* The tree hanging from _root: Nil, or <<colour, left, right>>.  The node at
\* the root of a subtree whose leftmost node has list index off + 1 has index
\* off + Size(left) + 1, so the i-th node of the list is the i-th node of the
\* tree in order.  Colours and rebalancing are those of a red-black tree
\* (detail::RBNode).
Nil == <<>>

RECURSIVE Size(_)
Size(t) == IF t = Nil THEN 0 ELSE Size(t[2]) + 1 + Size(t[3])

IsRed(t) == t # Nil /\ t[1] = "R"
IsBlack(t) == t # Nil /\ t[1] = "B"
Blacken(t) == IF t = Nil THEN Nil ELSE <<"B", t[2], t[3]>>
Redden(t) == IF t = Nil THEN Nil ELSE <<"R", t[2], t[3]>>

\* RBNode::rebalance_after_insert at a black node whose red child has a red
\* child: recolour when both children are red, rotate otherwise.
InsertFix(t) ==
    LET l == t[2]
        r == t[3]
    IN  IF ~IsBlack(t) THEN t
        ELSE IF IsRed(l) /\ IsRed(r)
                /\ (IsRed(l[2]) \/ IsRed(l[3]) \/ IsRed(r[2]) \/ IsRed(r[3]))
          THEN <<"R", Blacken(l), Blacken(r)>>
        ELSE IF IsRed(l) /\ IsRed(l[2])
          THEN <<"B", l[2], <<"R", l[3], r>>>>
        ELSE IF IsRed(l) /\ IsRed(l[3])
          THEN <<"B", <<"R", l[2], l[3][2]>>, <<"R", l[3][3], r>>>>
        ELSE IF IsRed(r) /\ IsRed(r[3])
          THEN <<"B", <<"R", l, r[2]>>, r[3]>>
        ELSE IF IsRed(r) /\ IsRed(r[2])
          THEN <<"B", <<"R", l, r[2][2]>>, <<"R", r[2][3], r[3]>>>>
        ELSE t

\* RBNode::set_child at the one free slot whose in-order position is pos
\* (the left slot of the node now at pos, or the right slot of the one
\* before it), then the rebalance on the way up.
RECURSIVE InsertLeaf(_, _)
InsertLeaf(t, pos) ==
    IF t = Nil THEN <<"R", Nil, Nil>>
    ELSE LET sl == Size(t[2])
         IN  IF pos <= sl + 1
               THEN InsertFix(<<t[1], InsertLeaf(t[2], pos), t[3]>>)
               ELSE InsertFix(<<t[1], t[2], InsertLeaf(t[3], pos - sl - 1)>>)

TreeInsert(t, pos) == Blacken(InsertLeaf(t, pos))

\* Rebalancing of a black node with children l and r after a removal.
Balance(l, r) ==
    IF IsRed(l) /\ IsRed(r) THEN <<"R", Blacken(l), Blacken(r)>>
    ELSE IF IsRed(l) /\ IsRed(l[2])
      THEN <<"R", Blacken(l[2]), <<"B", l[3], r>>>>
    ELSE IF IsRed(l) /\ IsRed(l[3])
      THEN <<"R", <<"B", l[2], l[3][2]>>, <<"B", l[3][3], r>>>>
    ELSE IF IsRed(r) /\ IsRed(r[2])
      THEN <<"R", <<"B", l, r[2][2]>>, <<"B", r[2][3], r[3]>>>>
    ELSE IF IsRed(r) /\ IsRed(r[3])
      THEN <<"R", <<"B", l, r[2]>>, Blacken(r[3])>>
    ELSE <<"B", l, r>>

\* The left subtree l lost one black level.
BalanceLeft(l, r) ==
    IF IsRed(l) THEN <<"R", Blacken(l), r>>
    ELSE IF IsBlack(r) THEN Balance(l, Redden(r))
    ELSE <<"R", <<"B", l, r[2][2]>>, Balance(r[2][3], Redden(r[3]))>>

\* The right subtree r lost one black level.
BalanceRight(l, r) ==
    IF IsRed(r) THEN <<"R", l, Blacken(r)>>
    ELSE IF IsBlack(l) THEN Balance(Redden(l), r)
    ELSE <<"R", Balance(Redden(l[2]), l[3][2]), <<"B", l[3][3], r>>>>

\* The two subtrees of an unlinked node, joined.
RECURSIVE Join(_, _)
Join(a, b) ==
    IF a = Nil THEN b
    ELSE IF b = Nil THEN a
    ELSE IF IsRed(a) /\ IsRed(b)
      THEN LET bc == Join(a[3], b[2])
           IN  IF IsRed(bc)
                 THEN <<"R", <<"R", a[2], bc[2]>>, <<"R", bc[3], b[3]>>>>
                 ELSE <<"R", a[2], <<"R", bc, b[3]>>>>
    ELSE IF IsBlack(a) /\ IsBlack(b)
      THEN LET bc == Join(a[3], b[2])
           IN  IF IsRed(bc)
                 THEN <<"R", <<"B", a[2], bc[2]>>, <<"B", bc[3], b[3]>>>>
                 ELSE BalanceLeft(a[2], <<"B", bc, b[3]>>)
    ELSE IF IsRed(b) THEN <<"R", Join(a, b[2]), b[3]>>
    ELSE <<"R", a[2], Join(a[3], b)>>

\* RBNode::remove of the node at in-order position pos, with the rebalance.
RECURSIVE Unlink(_, _)
Unlink(t, pos) ==
    IF t = Nil THEN Nil
    ELSE LET l == t[2]
             r == t[3]
             sl == Size(l)
         IN  IF pos <= sl
               THEN IF IsBlack(l) THEN BalanceLeft(Unlink(l, pos), r)
                                  ELSE <<"R", Unlink(l, pos), r>>
             ELSE IF pos = sl + 1
               THEN Join(l, r)
             ELSE IF IsBlack(r) THEN BalanceRight(l, Unlink(r, pos - sl - 1))
                                ELSE <<"R", l, Unlink(r, pos - sl - 1)>>

TreeRemove(t, pos) == Blacken(Unlink(t, pos))

\* The links and unlinks of one mutation, applied to the tree in order.  An
\* event is <<"ins", i>> (a node linked at list index i; a third element
\* tells where the node was allocated if not in the arena) or <<"rem", i>>;
\* an <<"at", k>> records a loop test and leaves the tree alone.
RECURSIVE Relink(_, _)
Relink(t, ev) ==
    IF ev = <<>> THEN t
    ELSE Relink(IF ev[1][1] = "ins" THEN TreeInsert(t, ev[1][2])
                ELSE IF ev[1][1] = "rem" THEN TreeRemove(t, ev[1][2])
                ELSE t,
                Tail(ev))

\* Black height of a red-black subtree, -1 when it is not one.
RECURSIVE BlackHeight(_)
BlackHeight(t) ==
    IF t = Nil THEN 0
    ELSE LET hl == BlackHeight(t[2])
             hr == BlackHeight(t[3])
         IN  IF hl < 0 \/ hl # hr THEN -1
             ELSE IF IsRed(t) /\ (IsRed(t[2]) \/ IsRed(t[3])) THEN -1
             ELSE hl + (IF IsBlack(t) THEN 1 ELSE 0)

\* Node::structure_fixup, applied from the leaves up (ripple_structure_fixup):
\* the _hull of the node at the root of shape t.
RECURSIVE structure_fixup(_, _, _)
structure_fixup(s, t, off) ==
    LET k == off + Size(t[2]) + 1
    IN  IF t[2] # Nil
          THEN IF t[3] # Nil
                 THEN hull(structure_fixup(s, t[2], off), structure_fixup(s, t[3], k))
                 ELSE structure_fixup(s, t[2], off)
          ELSE IF t[3] # Nil
                 THEN structure_fixup(s, t[3], k)
                 ELSE range_of(s[k])

\* DiscreteSpace::find; the list index of the node found, 0 for end().
RECURSIVE find_from(_, _, _, _)
find_from(s, t, off, metric) ==
    IF t = Nil THEN 0
    ELSE LET k == off + Size(t[2]) + 1
         IN  IF metric < s[k].min
               THEN IF contains(structure_fixup(s, t, off), metric)
                      THEN find_from(s, t[2], off, metric)
                      ELSE 0
             ELSE IF s[k].max < metric
               THEN IF contains(structure_fixup(s, t, off), metric)
                      THEN find_from(s, t[3], k, metric)
                      ELSE 0
             ELSE k

find(s, t, metric) == find_from(s, t, 0, metric)

\* DiscreteSpace::lower_bound; the list index of the node, 0 for nullptr.
RECURSIVE lower_bound_from(_, _, _, _, _)
lower_bound_from(s, t, off, target, zret) ==
    IF t = Nil THEN zret
    ELSE LET k == off + Size(t[2]) + 1
         IN  IF target < s[k].min
               THEN lower_bound_from(s, t[2], off, target, zret)
             ELSE IF s[k].max < target
               THEN lower_bound_from(s, t[3], k, target, k)
             ELSE k

\* lower_bound as it would be if zret were set only at the node the loop
\* breaks at (a node passed on the way right is forgotten).
lower_bound_nobest(s, t, target) ==
    LET k == lower_bound_from(s, t, 0, target, 0)
    IN  IF k # 0 /\ s[k].max < target THEN 0 ELSE k

lower_bound(s, t, target) == lower_bound_from(s, t, 0, target, 0)


\* ------------------------------------------------------------------ list mutation
\* DiscreteSpace::insert_before / insert_after / prepend / append / remove,
\* as they act on _list.  Indices name nodes; 0 is nullptr.
insert_before(s, spot, node) == InsertAt(s, spot, node)
insert_after(s, spot, node) == InsertAt(s, spot + 1, node)
prepend(s, node) == InsertAt(s, 1, node)
append(s, node) == InsertAt(s, Len(s) + 1, node)
remove(s, node) == RemoveAt(s, node)

\* The result of a mutation: the list, and the links and unlinks made, in
\* the order they were made.
Result(s, ev) == [list |-> s, ev |-> ev]
Ins(i) == <<"ins", i>>
\* The test of a loop ("while (n)") with the cursor at n: the number of
\* nodes from n to the end of the list, 0 when n is nullptr.
At(s, n) == <<"at", IF n = 0 THEN 0 ELSE Len(s) - n + 1>>
\* A link of a node made with new rather than with _fa.make.
InsNew(i) == <<"ins", i, "new">>
Rem(i) == <<"rem", i>>

\* ------------------------------------------------------------------ mark
RECURSIVE mark_sweep(_, _, _, _, _, _)
\* mark_sweep as it would be if max_plus_1 were compared with n->min() before
\* n->max() has been found greater than range.max().
mark_sweep_early(s, x, n, range, payload, ev) ==
    LET max_plus_1 == Inc(range.max)
    IN  IF n = 0 THEN Result(s, ev)
        ELSE IF max_plus_1 < s[n].min
          THEN Result(s, ev)
        ELSE IF s[n].max <= range.max
          THEN LET s2 == remove(s, n)
               IN  mark_sweep(s2, IF x > n THEN x - 1 ELSE x,
                              IF n > Len(s2) THEN 0 ELSE n, range, payload,
                              Append(ev, Rem(n)))
        ELSE IF s[n].payload = payload
          THEN LET s1 == [s EXCEPT ![x].max = s[n].max]
                   s2 == remove(s1, n)
               IN  mark_sweep(s2, IF x > n THEN x - 1 ELSE x,
                              IF n > Len(s2) THEN 0 ELSE n, range, payload,
                              Append(ev, Rem(n)))
        ELSE IF s[n].min <= range.max
          THEN Result([s EXCEPT ![n].min = max_plus_1], ev)
        ELSE Result(s, ev)

\* The right sweep of mark (while (n) ...): x is the node carrying the range.
mark_sweep(s, x, n, range, payload, ev0) ==
    LET max_plus_1 == Inc(range.max)
        ev == Append(ev0, At(s, n))
    IN  IF n = 0 THEN Result(s, ev)
        ELSE IF s[n].max <= range.max
          THEN \* y = n; n = next(n); remove(y)
               LET s2 == remove(s, n)
               IN  mark_sweep(s2, IF x > n THEN x - 1 ELSE x,
                              IF n > Len(s2) THEN 0 ELSE n, range, payload,
                              Append(ev, Rem(n)))
        ELSE IF max_plus_1 < s[n].min
          THEN Result(s, ev)
        ELSE IF s[n].payload = payload
          THEN LET s1 == [s EXCEPT ![x].max = s[n].max]
                   s2 == remove(s1, n)
               IN  mark_sweep(s2, IF x > n THEN x - 1 ELSE x,
                              IF n > Len(s2) THEN 0 ELSE n, range, payload,
                              Append(ev, Rem(n)))
        ELSE IF s[n].min <= range.max
          THEN Result([s EXCEPT ![n].min = max_plus_1], ev)
        ELSE Result(s, ev)

\* mark_at_min as it would be without the look at the predecessor
\* (the branch at "x = p" left out).
mark_at_min_nopred(s, n, range, payload) ==
    LET max_plus_1 == Inc(range.max)
    IN  IF s[n].max <= range.max
          THEN mark_sweep([s EXCEPT ![n].max = range.max, ![n].payload = payload],
                          n, next(s, n), range, payload, <<>>)
        ELSE IF s[n].payload = payload
          THEN Result(s, <<>>)
        ELSE \* x = new Node{range, payload}
             Result(insert_before([s EXCEPT ![n].min = max_plus_1], n,
                                  Node(range.min, range.max, payload)),
                    <<InsNew(n)>>)

\* mark, n->min() == range.min(): reuse the predecessor, reuse n, or put the
\* new node before n.
mark_at_min(s, n, range, payload) ==
    LET max_plus_1 == Inc(range.max)
        min_minus_1 == Dec(range.min)
        p == prev(s, n)
    IN  IF p # 0 /\ s[p].payload = payload /\ s[p].max = min_minus_1
          THEN \* x = p; n = x; x->assign_max(range.max())
               mark_sweep([s EXCEPT ![p].max = range.max], p, n, range, payload, <<>>)
        ELSE IF s[n].max <= range.max
          THEN mark_sweep([s EXCEPT ![n].max = range.max, ![n].payload = payload],
                          n, next(s, n), range, payload, <<>>)
        ELSE IF s[n].payload = payload
          THEN Result(s, <<>>)
        ELSE \* x = new Node{range, payload}
             Result(insert_before([s EXCEPT ![n].min = max_plus_1], n,
                                  Node(range.min, range.max, payload)),
                    <<InsNew(n)>>)

\* mark_split as it would be if the right part started at range.max()
\* instead of max_plus_1.
mark_split_noinc(s, n, range, payload) ==
    LET min_minus_1 == Dec(range.min)
        x == Node(range.min, range.max, payload)
        r == Node(range.max, s[n].max, s[n].payload)
    IN  Result(insert_after(insert_after([s EXCEPT ![n].max = min_minus_1], n, x), n + 1, r),
               <<Ins(n + 1), Ins(n + 2)>>)

\* mark_split as it would be if the right part were made with the new
\* payload instead of n->payload().
mark_split_newpayload(s, n, range, payload) ==
    LET max_plus_1 == Inc(range.max)
        min_minus_1 == Dec(range.min)
        x == Node(range.min, range.max, payload)
        r == Node(max_plus_1, s[n].max, payload)
    IN  Result(insert_after(insert_after([s EXCEPT ![n].max = min_minus_1], n, x), n + 1, r),
               <<Ins(n + 1), Ins(n + 2)>>)

\* mark, n starts left of the range and covers it with another payload:
\* n keeps the left part, the new node and the right part go after it.
mark_split(s, n, range, payload) ==
    LET max_plus_1 == Inc(range.max)
        min_minus_1 == Dec(range.min)
        x == Node(range.min, range.max, payload)
        r == Node(max_plus_1, s[n].max, s[n].payload)
    IN  Result(insert_after(insert_after([s EXCEPT ![n].max = min_minus_1], n, x), n + 1, r),
               <<Ins(n + 1), Ins(n + 2)>>)

\* mark_left_skew as it would be if n were not clipped where it overlaps
\* the range (n->assign_max(min_minus_1) left out).
mark_left_skew_noclip(s, n, range, payload) ==
    LET fresh == Node(range.min, range.max, payload)
        y == next(s, n)
    IN  IF s[n].max < range.min /\ y # 0 /\ s[y].max <= range.max
          THEN mark_sweep([s EXCEPT ![y] = fresh], y, next(s, y), range, payload, <<>>)
        ELSE IF y # 0
          THEN mark_sweep(insert_before(s, y, fresh), y, y + 1, range, payload, <<Ins(y)>>)
        ELSE Result(append(s, fresh), <<Ins(Len(s) + 1)>>)

\* mark, n starts left of the range and ends inside it or before it: clip n
\* or reuse its successor, then (if (!x)) make the node.
mark_left_skew(s, n, range, payload) ==
    LET min_minus_1 == Dec(range.min)
        fresh == Node(range.min, range.max, payload)
        y == next(s, n)
    IN  IF s[n].max < range.min /\ y # 0 /\ s[y].max <= range.max
          THEN \* x = y; n = x; n = next(n)
               mark_sweep([s EXCEPT ![y] = fresh], y, next(s, y), range, payload, <<>>)
        ELSE IF y # 0
          THEN mark_sweep(insert_before(IF s[n].max >= range.min
                                          THEN [s EXCEPT ![n].max = min_minus_1] ELSE s,
                                        y, fresh),
                          y, y + 1, range, payload, <<Ins(y)>>)
        ELSE Result(append(IF s[n].max >= range.min
                             THEN [s EXCEPT ![n].max = min_minus_1] ELSE s,
                           fresh),
                    <<Ins(Len(s) + 1)>>)

\* mark, lower_bound found nothing: reuse the head or put the new node first.
mark_head(s, range, payload) ==
    LET max_plus_1 == Inc(range.max)
    IN  IF Len(s) > 0 /\ s[1].payload = payload
           /\ (s[1].max <= range.max \/ s[1].min <= max_plus_1)
          THEN mark_sweep([s EXCEPT ![1].min = range.min,
                                    ![1].max = IF @ < range.max THEN range.max ELSE @],
                          1, next(s, 1), range, payload, <<>>)
          ELSE \* n is head() (nullptr in an empty space)
               mark_sweep(prepend(s, Node(range.min, range.max, payload)), 1,
                          IF Len(s) > 0 THEN 2 ELSE 0, range, payload, <<Ins(1)>>)

\* DiscreteSpace::mark, from the node n that lower_bound(range.min()) returned.
mark_from(s, n, range, payload) ==
    LET min_minus_1 == Dec(range.min)
    IN  IF n # 0
          THEN IF s[n].min = range.min
                 THEN mark_at_min(s, n, range, payload)
               ELSE IF s[n].payload = payload /\ s[n].max >= min_minus_1
                 THEN IF s[n].max >= range.max
                        THEN Result(s, <<>>)
                        ELSE mark_sweep([s EXCEPT ![n].max = range.max], n, next(s, n),
                                        range, payload, <<>>)
               ELSE IF s[n].max <= range.max
                 THEN mark_left_skew(s, n, range, payload)
               ELSE mark_split(s, n, range, payload)
          ELSE mark_head(s, range, payload)

\* DiscreteSpace::mark
mark(s, t, range, payload) == mark_from(s, lower_bound(s, t, range.min), range, payload)

\* ------------------------------------------------------------------ fill
\* fill_tail as it would be if the append of the last node were left out.
fill_tail_noappend(s, x, min, max, payload, ev) ==
    IF x # 0
      THEN Result([s EXCEPT ![x].max = max], ev)
      ELSE Result(s, ev)

\* fill_tail as it would be if x were stretched to the last value of the
\* metric instead of to max.
fill_tail_tomax(s, x, min, max, payload, ev) ==
    IF x # 0
      THEN Result([s EXCEPT ![x].max = MAX], ev)
      ELSE Result(append(s, Node(min, max, payload)), Append(ev, Ins(Len(s) + 1)))

\* fill, the code after the loop: stretch the carried node x, or append the
\* node for what is left.
fill_tail(s, x, min, max, payload, ev) ==
    IF x # 0
      THEN Result([s EXCEPT ![x].max = max], ev)
      ELSE Result(append(s, Node(min, max, payload)), Append(ev, Ins(Len(s) + 1)))

\* fill_lead as it would be if the leading node were linked twice.
fill_lead_twice(s, n, min, payload) ==
    insert_before(insert_before(s, n, Node(min, Dec(s[n].min), payload)),
                  n, Node(min, Dec(s[n].min), payload))

\* fill_lead as it would be without y->dec_max().
fill_lead_nodec(s, n, min, payload) ==
    insert_before(s, n, Node(min, s[n].min, payload))

\* fill, the leading section before a node n of another payload:
\* y = make(min, n->_min, payload); y->dec_max(); insert_before(n, y)
fill_lead(s, n, min, payload) ==
    insert_before(s, n, Node(min, Dec(s[n].min), payload))

\* The loop of fill (while (n) ...) and the code after it: x is the node
\* being carried (0 when none), min the start of what is left to fill.
RECURSIVE fill_loop(_, _, _, _, _, _, _)
fill_loop(s, x, n, min, max, payload, ev0) ==
    LET max_plus1 == Inc(max)
        ev == Append(ev0, At(s, n))
    IN  IF n = 0
          THEN fill_tail(s, x, min, max, payload, ev)
        ELSE IF s[n].payload = payload
          THEN IF x # 0
                 THEN IF s[n].max <= max
                        THEN \* remove(n); n = next(x)
                             LET s2 == remove(s, n)
                                 x2 == IF x > n THEN x - 1 ELSE x
                             IN  fill_loop(s2, x2, next(s2, x2), min, max, payload,
                                           Append(ev, Rem(n)))
                      ELSE IF s[n].min <= max_plus1
                        THEN LET s1 == [s EXCEPT ![x].max = s[n].max]
                             IN  Result(remove(s1, n), Append(ev, Rem(n)))
                      ELSE Result([s EXCEPT ![x].max = max], ev)
                 ELSE IF s[n].max <= max
                        THEN LET s1 == [s EXCEPT ![n].min = min]
                             IN  fill_loop(s1, n, next(s1, n), min, max, payload, ev)
                      ELSE IF s[n].min <= max_plus1
                        THEN Result([s EXCEPT ![n].min = min], ev)
                      ELSE Result(insert_before(s, n, Node(min, max, payload)),
                                  Append(ev, Ins(n)))
        ELSE IF x # 0
          THEN IF max < s[n].min
                 THEN Result([s EXCEPT ![x].max = max], ev)
               ELSE IF max <= s[n].max
                 THEN \* x->assign_max(n->_min).dec_max()
                      Result([s EXCEPT ![x].max = Dec(s[n].min)], ev)
               ELSE LET s1 == [s EXCEPT ![x].max = Dec(s[n].min)]
                    IN  fill_loop(s1, 0, next(s1, n), Inc(s[n].max), max, payload, ev)
        ELSE IF max < s[n].min
          THEN \* insert_before(n, new Node(min, max, payload))
               Result(insert_before(s, n, Node(min, max, payload)), Append(ev, InsNew(n)))
        ELSE LET lead == min < s[n].min
                 s1 == IF lead THEN fill_lead(s, n, min, payload) ELSE s
                 ev1 == IF lead THEN Append(ev, Ins(n)) ELSE ev
                 n1 == IF lead THEN n + 1 ELSE n
             IN  IF max <= s1[n1].max
                   THEN Result(s1, ev1)
                   ELSE fill_loop(s1, 0, next(s1, n1), Inc(s1[n1].max), max, payload, ev1)

\* DiscreteSpace::fill, from the node n that lower_bound(range.min()) returned.
fill_from(s, n, range, payload) ==
    LET min == range.min
        max == range.max
        min_1 == Dec(min)
    IN  IF n # 0
          THEN IF s[n].min < min
                 THEN IF s[n].max < min_1
                        THEN fill_loop(s, 0, next(s, n), min, max, payload, <<>>)
                      ELSE IF s[n].max >= max
                        THEN Result(s, <<>>)
                      ELSE IF s[n].payload # payload
                        THEN fill_loop(s, 0, next(s, n), Inc(s[n].max), max, payload, <<>>)
                      ELSE fill_loop(s, n, next(s, n), min, max, payload, <<>>)
                 ELSE fill_loop(s, 0, n, min, max, payload, <<>>)
          ELSE \* n = head()
               fill_loop(s, 0, head(s), min, max, payload, <<>>)

\* DiscreteSpace::fill
fill(s, t, range, payload) == fill_from(s, lower_bound(s, t, range.min), range, payload)

\* ------------------------------------------------------------------ blend
\* The blenders a caller passes: "add" is a := a + b on the payload type,
\* returning a != 0; "never" returns false and leaves a alone.  "add8" is
\* "add" on an 8-bit unsigned payload.
Blenders == {"add", "never"}
blender(b, a, color) ==
    IF b = "add"
      THEN LET sum == (a + color) % (PayloadMax + 1)
           IN  [keep |-> sum # 0, payload |-> sum]
    ELSE IF b = "add8"
      THEN LET sum == (a + color) % 256
           IN  [keep |-> sum # 0, payload |-> sum]
      ELSE [keep |-> FALSE, payload |-> a]

\* The code of blend after its loop.  The result also tells how the loop
\* was left: exit is the list and the value of remaining at that point.
blend_tail(s, remaining, range, plain_color_p, plain_color, ev) ==
    LET exit == [list |-> s, remaining |-> remaining]
    IN  IF plain_color_p /\ remaining.min <= range.max
          THEN LET n == tail(s)
               IN  IF n # 0 /\ s[n].max >= Dec(remaining.min) /\ s[n].payload = plain_color
                     THEN [list |-> [s EXCEPT ![n].max = range.max], ev |-> ev, exit |-> exit]
                     ELSE [list |-> append(s, Node(remaining.min, remaining.max, plain_color)),
                           ev |-> Append(ev, Ins(Len(s) + 1)), exit |-> exit]
          ELSE [list |-> s, ev |-> ev, exit |-> exit]

RECURSIVE blend_loop(_, _, _, _, _, _, _)

\* One pass of the loop from "Create a node with the blend for the overlap":
\* n overlaps remaining on the right and the gap to its left has been dealt with.
blend_overlap(s, n, right_ext_p, remaining, range, color, b, ev) ==
    LET range_max_plus_1 == Inc(range.max)
        max == IF right_ext_p THEN remaining.max ELSE s[n].max
        blended == blender(b, s[n].payload, color)
        fill_p == blended.keep
        fill_node == Node(s[n].min, max, blended.payload)
        left == [remaining EXCEPT !.min = Inc(max)]
        pred == prev(s, n)
    IN  IF fill_p
          THEN IF right_ext_p
                 THEN IF s[n].payload = fill_node.payload
                        THEN \* n->assign_min(fill->min()); fill is dropped
                             blend_loop([s EXCEPT ![n].min = fill_node.min],
                                        next(s, n), left, range, color, b, ev)
                        ELSE Result(insert_before([s EXCEPT ![n].min = range_max_plus_1],
                                                  n, fill_node),
                                    Append(ev, Ins(n)))
               ELSE IF pred # 0
                       /\ is_left_adjacent_to(range_of(s[pred]), range_of(fill_node))
                       /\ s[pred].payload = fill_node.payload
                 THEN \* remove(n); pred->assign_max(fill->max())
                      blend_loop(remove([s EXCEPT ![pred].max = fill_node.max], n),
                                 IF n >= Len(s) THEN 0 ELSE n, left,
                                 range, color, b, Append(ev, Rem(n)))
               ELSE \* insert_before(n, fill); remove(n)
                    blend_loop([s EXCEPT ![n] = fill_node], next(s, n), left, range,
                               color, b, ev \o <<Ins(n), Rem(n + 1)>>)
        ELSE IF right_ext_p
          THEN Result([s EXCEPT ![n].min = range_max_plus_1], ev)
        ELSE blend_loop(remove(s, n), IF n >= Len(s) THEN 0 ELSE n, left, range,
                        color, b, Append(ev, Rem(n)))

\* One pass of the loop from "Calculate and cache key relationships": n is
\* the node at hand (the stub, if n was split) and pred the node before it.
blend_node(s, n, pred, remaining, range, color, b, ev) ==
    LET plain == blender(b, 0, color)
        plain_color_p == plain.keep
        plain_color == plain.payload
        pred_edge == IF pred # 0
                       THEN left_edge_relationship(remaining, range_of(s[pred]))
                       ELSE "NONE"
        right_ext_p == s[n].max > remaining.max
        right_overlap_p == contains(remaining, s[n].min)
        right_adj_p == is_left_adjacent_to(remaining, range_of(s[n]))
        n_plain_colored_p == plain_color_p /\ s[n].payload = plain_color
        pred_plain_colored_p ==
            /\ pred_edge # "NONE" /\ pred_edge # "GAP"
            /\ s[pred].payload = plain_color
        n_min_minus_1 == Dec(s[n].min)
    IN  IF ~right_overlap_p
          THEN \* n is past the range: all that remains can be filled now
               IF right_adj_p /\ n_plain_colored_p
                 THEN IF pred_plain_colored_p
                        THEN Result(remove([s EXCEPT ![n].min = s[pred].min], pred),
                                    Append(ev, Rem(pred)))
                        ELSE Result([s EXCEPT ![n].min = remaining.min], ev)
               ELSE IF pred_plain_colored_p
                 THEN Result([s EXCEPT ![pred].max = remaining.max], ev)
               ELSE IF ~empty(remaining)
                 THEN Result(insert_before(s, n, Node(remaining.min, remaining.max,
                                                      plain_color)),
                             Append(ev, Ins(n)))
               ELSE Result(s, ev)
        ELSE IF plain_color_p /\ remaining.min < s[n].min
          THEN \* gap on the left of n: fill from remaining.min to n.min - 1
               IF s[n].payload = plain_color
                 THEN IF pred # 0 /\ s[pred].payload = s[n].payload
                        THEN \* remove(pred); n->assign_min(pred_min)
                             blend_overlap(remove([s EXCEPT ![n].min = s[pred].min], pred),
                                           n - 1, right_ext_p, remaining, range, color, b,
                                           Append(ev, Rem(pred)))
                        ELSE blend_overlap([s EXCEPT ![n].min = remaining.min], n,
                                           right_ext_p, remaining, range, color, b, ev)
               ELSE IF pred # 0 /\ s[pred].payload = plain_color
                 THEN blend_overlap([s EXCEPT ![pred].max = n_min_minus_1], n,
                                    right_ext_p, remaining, range, color, b, ev)
               ELSE blend_overlap(insert_before(s, n, Node(remaining.min, n_min_minus_1,
                                                           plain_color)),
                                  n + 1, right_ext_p, remaining, range, color, b,
                                  Append(ev, Ins(n)))
        ELSE blend_overlap(s, n, right_ext_p, remaining, range, color, b, ev)

\* The loop of blend (while (n) ...), then the code after it.
blend_loop(s, n, remaining, range, color, b, ev0) ==
    LET ev == Append(ev0, At(s, n)) IN
    IF n = 0
      THEN LET plain == blender(b, 0, color)
           IN  blend_tail(s, remaining, range, plain.keep, plain.payload, ev)
    ELSE IF s[n].max < remaining.min
      THEN blend_loop(s, next(s, n), remaining, range, color, b, ev)
    ELSE IF s[n].min < remaining.min
      THEN \* left extension: clip n and go on with a stub put after it
           blend_node(insert_after([s EXCEPT ![n].max = Dec(remaining.min)], n,
                                   Node(remaining.min, s[n].max, s[n].payload)),
                      n + 1, n, remaining, range, color, b, Append(ev, Ins(n + 1)))
    ELSE blend_node(s, n, prev(s, n), remaining, range, color, b, ev)

\* DiscreteSpace::blend, from the node n that lower_bound(range.min()) returned.
blend_from(s, n, range, color, b) ==
    blend_loop(s, IF n = 0 THEN head(s) ELSE n, range, range, color, b, <<>>)

\* DiscreteSpace::blend
blend(s, t, range, color, b) ==
    blend_from(s, lower_bound(s, t, range.min), range, color, b)

\* ------------------------------------------------------------------ state
VARIABLES
    list,   \* _list: the nodes in order
    tree,   \* the shape of the tree under _root
    last,   \* the name of the call that produced this state
    done,   \* the calls made so far with their arguments, where they are recorded
    order   \* the nodes of the tree in in-order sequence, where nodes have names

vars == <<list, tree, last, done, order>>

\* The non-empty ranges a caller can pass.
Ranges == {Range(lo, hi) : lo \in Metric, hi \in Metric} \ {r \in [min : Metric, max : Metric] : r.min > r.max}

\* The payloads of the nodes of s whose range contains m.
PayloadsAt(s, m) == {s[i].payload : i \in {j \in 1..Len(s) : contains(range_of(s[j]), m)}}
\* m has a payload in s.
Mapped(s, m) == PayloadsAt(s, m) # {}

\* Space invariants of the list: non-empty ranges, increasing and disjoint,
\* no two adjacent nodes with equal payloads.
Canonical(s) ==
    /\ \A i \in 1..Len(s) : s[i].min <= s[i].max
    /\ \A i \in 1..(Len(s) - 1) :
          /\ s[i].max < s[i + 1].min
          /\ ~(s[i].max + 1 = s[i + 1].min /\ s[i].payload = s[i + 1].payload)

Init ==
    /\ list = <<>>
    /\ tree = Nil
    /\ last = "none"
    /\ done = <<>>
    /\ order = <<>>

\* A mutation that returned res: the list is replaced, and the tree is
\* relinked as the mutation linked and unlinked nodes.  Calls are followed
\* from canonical spaces only: a space that a call left out of canonical form
\* is kept as a state, and no further call is made on it.
Commit(res) ==
    /\ Canonical(list)
    /\ Len(res.list) <= MaxNodes
    /\ list' = res.list
    /\ tree' = Relink(tree, res.ev)
    /\ done' = done
    /\ order' = order

Mark ==
    \E r \in Ranges, p \in Payload :
        /\ Commit(mark(list, tree, r, p))
        /\ last' = "mark"

Fill ==
    \E r \in Ranges, p \in Payload :
        /\ Commit(fill(list, tree, r, p))
        /\ last' = "fill"

\* The (blender, color) pairs a caller passes; "never" does not read color.
BlendCalls == {<<"add", c>> : c \in Payload} \cup {<<"never", 0>>}

Blend ==
    \E r \in Ranges, bc \in BlendCalls :
        /\ Commit(blend(list, tree, r, bc[2], bc[1]))
        /\ last' = "blend"

Next == Mark \/ Fill \/ Blend

Spec == Init /\ [][Next]_vars

SpecMarkFill == Init /\ [][Mark \/ Fill]_vars

\* The tree is a red-black tree with a black root that holds the nodes of
\* the list.
TreeInv == BlackHeight(tree) >= 0 /\ Size(tree) = Len(list) /\ ~IsRed(tree)


\* ------------------------------------------------------------------ properties
\* The metric values inside and outside a range.
InRange(r) == {m \in Metric : contains(r, m)}
OutOfRange(r) == {m \in Metric : ~contains(r, m)}

\* No two consecutive nodes of s are adjacent (a.max + 1 = b.min) with equal
\* payloads.
NoAdjacentEqual(s) ==
    \A i \in 1..(Len(s) - 1) :
        ~(Inc(s[i].max) = s[i + 1].min /\ s[i].max < s[i + 1].min
          /\ s[i].payload = s[i + 1].payload)

\* The list a call leaves when made in the current state.
AfterMark(r, p) == mark(list, tree, r, p).list
AfterFill(r, p) == fill(list, tree, r, p).list
AfterBlend(r, color, b) == blend(list, tree, r, color, b).list

\* C1: after mark(r, p) on a canonical space, find(m) returns a node whose
\* payload is p for every metric value m of r.
C1_MarkThenFind ==
    Canonical(list) =>
        \A r \in Ranges, p \in Payload :
            LET res == mark(list, tree, r, p)
            IN  \A m \in InRange(r) :
                    LET k == find(res.list, Relink(tree, res.ev), m)
                    IN  k # 0 /\ res.list[k].payload = p

\* C2: mark(r, p) on a canonical space leaves every metric value outside r
\* as it was: mapped after the call iff mapped before, and to the same payload.
C2_MarkFrame ==
    Canonical(list) =>
        \A r \in Ranges, p \in Payload : \A m \in OutOfRange(r) :
            PayloadsAt(AfterMark(r, p), m) = PayloadsAt(list, m)

\* A canonical space and a mark that splits one of its nodes, so that values
\* of that node are left on both sides of r.
C2_MarkSplits ==
    /\ Canonical(list)
    /\ \E r \in Ranges, p \in Payload :
          /\ Len(AfterMark(r, p)) = Len(list) + 2
          /\ Mapped(AfterMark(r, p), Dec(r.min))
          /\ Mapped(AfterMark(r, p), Inc(r.max))

\* C3: every metric value of r that is unmapped before fill(r, p) on a
\* canonical space is mapped to p after the call.
C3_FillPaintsUnmapped ==
    Canonical(list) =>
        \A r \in Ranges, p \in Payload : \A m \in InRange(r) :
            ~Mapped(list, m) => PayloadsAt(AfterFill(r, p), m) = {p}

\* A canonical space and a fill that makes two nodes: a leading section
\* before a node of another payload and the rest after it.
C3_FillTwoGaps ==
    /\ Canonical(list)
    /\ \E r \in Ranges, p \in Payload :
          /\ Len(AfterFill(r, p)) = Len(list) + 2
          /\ ~Mapped(list, r.min)
          /\ ~Mapped(list, r.max)

\* C4: fill(r, p) never changes the payload of a mapped value: every metric
\* value mapped to q before the call, inside or outside r, is mapped to q
\* after it.
C4_FillConservative ==
    Canonical(list) =>
        \A r \in Ranges, p \in Payload : \A m \in Metric :
            Mapped(list, m) => PayloadsAt(AfterFill(r, p), m) = PayloadsAt(list, m)

\* A canonical space and a fill whose range reaches past both ends of a node
\* of another payload, and which changes the space.
C4_FillAroundNode ==
    /\ Canonical(list)
    /\ \E r \in Ranges, p \in Payload : \E i \in 1..Len(list) :
          /\ list[i].payload # p
          /\ r.min < list[i].min
          /\ list[i].max < r.max
          /\ AfterFill(r, p) # list

\* C5: for every metric value m of r mapped to q before blend(r, color,
\* blender) on a canonical space: if blender(q, color) returns true with
\* result q' then m is mapped to q' after the call, and if it returns false
\* then m is unmapped after the call.
C5_BlendMapped ==
    Canonical(list) =>
        \A r \in Ranges, bc \in BlendCalls : \A m \in InRange(r) :
            \A q \in PayloadsAt(list, m) :
                LET bl == blender(bc[1], q, bc[2])
                IN  IF bl.keep
                      THEN PayloadsAt(AfterBlend(r, bc[2], bc[1]), m) = {bl.payload}
                      ELSE ~Mapped(AfterBlend(r, bc[2], bc[1]), m)

\* C6: when blender(PAYLOAD(), color) returns true leaving plain_color, every
\* metric value of r that is unmapped before blend(r, color, blender) is
\* mapped to exactly plain_color after the call.
C6_BlendUnmapped ==
    Canonical(list) =>
        \A r \in Ranges, bc \in BlendCalls :
            LET plain == blender(bc[1], 0, bc[2])
            IN  plain.keep =>
                    \A m \in InRange(r) :
                        ~Mapped(list, m) =>
                            PayloadsAt(AfterBlend(r, bc[2], bc[1]), m) = {plain.payload}

\* C7: blend(r, color, blender) with a blender that always returns false
\* erases r: after the call no metric value of r is mapped.
C7_TransparentErases ==
    Canonical(list) =>
        \A r \in Ranges : \A m \in InRange(r) : ~Mapped(AfterBlend(r, 0, "never"), m)

\* C8: after any sequence of mark and fill calls from the empty space, no two
\* consecutive nodes have adjacent ranges and equal payloads.
C8_MarkFillCoalesced == NoAdjacentEqual(list)

\* A space left by a mark or fill in which a mark or fill joins its range
\* with an equal-payload neighbour on each side.
C8_JoinsBothSides ==
    /\ last \in {"mark", "fill"}
    /\ \E r \in Ranges, p \in Payload : \E i \in 1..(Len(list) - 1) :
          /\ list[i].payload = p /\ list[i + 1].payload = p
          /\ Inc(list[i].max) = r.min
          /\ Inc(r.max) = list[i + 1].min
          /\ r.max < list[i + 1].min
          /\ Len(AfterMark(r, p)) = Len(list) - 1
          /\ Len(AfterFill(r, p)) = Len(list) - 1

\* C9: after blend(r, color, blender) on a canonical space, no two consecutive
\* nodes have adjacent ranges and equal payloads.
C9_BlendCoalesced == (last = "blend") => NoAdjacentEqual(list)

\* C10: after any sequence of mark, fill and blend calls, the stored ranges
\* are pairwise disjoint: no metric value is in the ranges of two nodes.
C10_Disjoint ==
    \A i, j \in 1..Len(list) :
        i # j => \A m \in Metric :
                    ~(contains(range_of(list[i]), m) /\ contains(range_of(list[j]), m))

\* C11: after any sequence of mark, fill and blend calls, the list is strictly
\* increasing by min: a.min < b.min for consecutive nodes a then b.
C11_OrderedByMin ==
    \A i \in 1..(Len(list) - 1) : list[i].min < list[i + 1].min

\* ------------------------------------------------------------------ calls with any range
\* Every range a caller can pass, the empty ones (min > max) included.
AllRanges == {Range(lo, hi) : lo \in Metric, hi \in Metric}
EmptyRanges == {r \in AllRanges : empty(r)}

MarkAny ==
    \E r \in AllRanges, p \in Payload :
        /\ Commit(mark(list, tree, r, p))
        /\ last' = "mark"

FillAny ==
    \E r \in AllRanges, p \in Payload :
        /\ Commit(fill(list, tree, r, p))
        /\ last' = "fill"

BlendAny ==
    \E r \in AllRanges, bc \in BlendCalls :
        /\ Commit(blend(list, tree, r, bc[2], bc[1]))
        /\ last' = "blend"

SpecAnyRange == Init /\ [][MarkAny \/ FillAny \/ BlendAny]_vars

\* C12: for all sequences of mark, fill and blend calls, with any range
\* arguments, every range stored in a node is non-empty (min <= max).
C12_StoredRangesNonEmpty ==
    \A i \in 1..Len(list) : ~empty(range_of(list[i]))

\* C13: mark, fill or blend called with an empty range is a no-op on any
\* space: the list of nodes, with their ranges and payloads, is the same
\* after the call as before.
C13_EmptyRangeNoOp ==
    Canonical(list) =>
        \A r \in EmptyRanges :
            /\ \A p \in Payload : AfterMark(r, p) = list /\ AfterFill(r, p) = list
            /\ \A bc \in BlendCalls : AfterBlend(r, bc[2], bc[1]) = list

\* C14: in every state reached by mark and fill calls, for every metric value
\* m, find(m) returns end() iff no stored range contains m, and otherwise
\* returns the node whose range contains m.
C14_FindCorrect ==
    \A m \in Metric :
        LET k == find(list, tree, m)
        IN  IF Mapped(list, m) THEN k # 0 /\ contains(range_of(list[k]), m)
                               ELSE k = 0

\* Every node of the subtree t (whose first node follows list index off) has
\* a _hull equal to the hull of its own range and its children's _hull.
RECURSIVE HullOfSelfAndChildren(_, _, _)
HullOfSelfAndChildren(s, t, off) ==
    \/ t = Nil
    \/ LET k == off + Size(t[2]) + 1
           lefts == IF t[2] = Nil THEN EmptyRange ELSE structure_fixup(s, t[2], off)
           rights == IF t[3] = Nil THEN EmptyRange ELSE structure_fixup(s, t[3], k)
       IN  /\ structure_fixup(s, t, off) = hull(hull(range_of(s[k]), lefts), rights)
           /\ HullOfSelfAndChildren(s, t[2], off)
           /\ HullOfSelfAndChildren(s, t[3], k)

\* C15: in every state reached by a sequence of mutations, each node's subtree
\* hull equals the hull of its own range and the subtree hulls of its left
\* and right children, also for a node that has exactly one child.
C15_SubtreeHulls == HullOfSelfAndChildren(list, tree, 0)

\* The list after mark(r, p) is made twice in a row in the current state.
AfterMarkTwice(r, p) ==
    LET once == mark(list, tree, r, p)
    IN  mark(once.list, Relink(tree, once.ev), r, p).list

\* C16: mark is idempotent: on a canonical space, the nodes after
\* mark(r, p); mark(r, p) are the nodes after a single mark(r, p).
C16_MarkIdempotent ==
    Canonical(list) =>
        \A r \in Ranges, p \in Payload : AfterMarkTwice(r, p) = AfterMark(r, p)

\* A canonical space and a mark that changes it and leaves r inside a
\* larger node of payload p, which the second mark finds already covering r.
C16_MarkChangesSpace ==
    /\ Canonical(list)
    /\ \E r \in Ranges, p \in Payload :
          /\ AfterMark(r, p) # list
          /\ \E i \in 1..Len(AfterMark(r, p)) :
                /\ AfterMark(r, p)[i].payload = p
                /\ AfterMark(r, p)[i].min < r.min
                /\ r.max < AfterMark(r, p)[i].max

\* ------------------------------------------------------------------ metric arithmetic
\* The operands of the ++ and -- that a call applies to its range argument
\* and its lower bound node n before it works through the nodes:
\* inc the values ++ is applied to, dec the values -- is applied to.
\* mark: ++max_plus_1 always, --min_minus_1 when lower_bound found a node.
mark_arith(s, n, range) ==
    [inc |-> {range.max},
     dec |-> IF n # 0 THEN {range.min} ELSE {}]

\* fill: --min_1 when n starts left of min; return when n covers the range;
\* ++min on n->max() when n is clipped away on the left; then ++max_plus1.
fill_arith(s, n, range, payload) ==
    LET left == n # 0 /\ s[n].min < range.min
        near == left /\ ~(s[n].max < Dec(range.min))
        covered == near /\ s[n].max >= range.max
        clipped == near /\ ~covered /\ s[n].payload # payload
    IN  [inc |-> (IF clipped THEN {s[n].max} ELSE {})
                    \cup (IF covered THEN {} ELSE {range.max}),
         dec |-> IF left THEN {range.min} ELSE {}]

\* blend: ++range_max_plus_1 always.
blend_arith(range) ==
    [inc |-> {range.max}, dec |-> {}]

\* No ++ at MAX and no -- at MIN among the operands a.
NoWrap(a) == MAX \notin a.inc /\ MIN \notin a.dec

\* C17: in no call of mark, fill or blend, also with max = MAX or min = MIN
\* in the range argument, is ++ applied to a value equal to MAX or --
\* applied to a value equal to MIN.
C17_NoIncAtMaxNoDecAtMin ==
    Canonical(list) =>
        \A r \in Ranges, p \in Payload :
            LET n == lower_bound(list, tree, r.min)
            IN  /\ NoWrap(mark_arith(list, n, r))
                /\ NoWrap(fill_arith(list, n, r, p))
                /\ NoWrap(blend_arith(r))

\* ------------------------------------------------------------------ scripted calls
\* Calls with fixed arguments, made one after another from the empty space.
\* The payload is an 8-bit unsigned integer and the blender is "add8"; the
\* metric is wide enough that no ++ or -- of these calls meets the least or
\* the greatest value of its type, so Inc and Dec act as + 1 and - 1.
ScenarioLen == 3

ScenarioCall(op, lo, hi, p) == [op |-> op, range |-> Range(lo, hi), payload |-> p]

ScenarioCalls ==
    { ScenarioCall("mark", 10, 20, 3), ScenarioCall("mark", 15, 25, 5),
      ScenarioCall("fill", 10, 20, 3), ScenarioCall("fill", 15, 25, 5),
      ScenarioCall("blend", 12, 22, 1) }

\* What the call c returns in the current state.
ScenarioResult(c) ==
    CASE c.op = "mark" -> mark(list, tree, c.range, c.payload)
      [] c.op = "fill" -> fill(list, tree, c.range, c.payload)
      [] c.op = "blend" -> blend(list, tree, c.range, c.payload, "add8")

ScenarioStep ==
    \E c \in ScenarioCalls :
        /\ Len(done) < ScenarioLen
        /\ list' = ScenarioResult(c).list
        /\ tree' = Relink(tree, ScenarioResult(c).ev)
        /\ last' = c.op
        /\ done' = Append(done, c)
        /\ order' = order

SpecScenario == Init /\ [][ScenarioStep]_vars

\* mark([10,20], 3); mark([15,25], 5); blend([12,22], 1, blender)
MarkMarkBlend ==
    << ScenarioCall("mark", 10, 20, 3), ScenarioCall("mark", 15, 25, 5),
       ScenarioCall("blend", 12, 22, 1) >>

\* Every value of lo..hi maps to p in the list.
MapsTo(lo, hi, p) == \A m \in lo..hi : PayloadsAt(list, m) = {p}

\* C18: after mark([10,20], 3); mark([15,25], 5); blend([12,22], 1, blender)
\* from the empty space, [12,14] maps to 4, [15,20] to 9, [21,22] to 6,
\* [10,11] to 3 and [23,25] to 5.
C18_ScenarioAsClaimed ==
    (done = MarkMarkBlend) =>
        /\ MapsTo(12, 14, 4)
        /\ MapsTo(15, 20, 9)
        /\ MapsTo(21, 22, 6)
        /\ MapsTo(10, 11, 3)
        /\ MapsTo(23, 25, 5)

\* C18 as amended: after the same calls, [12,14] maps to 4, [15,22] to 6,
\* [10,11] to 3 and [23,25] to 5 (the second mark has replaced 3 by 5 on
\* [15,20] before the blend adds 1).
C18_Scenario ==
    (done = MarkMarkBlend) =>
        /\ MapsTo(12, 14, 4)
        /\ MapsTo(15, 22, 6)
        /\ MapsTo(10, 11, 3)
        /\ MapsTo(23, 25, 5)

\* The three calls have been made, in this order.
C18_ScenarioRun == done = MarkMarkBlend /\ Len(list) = 4

\* ------------------------------------------------------------------ calls on two ranges
\* Two ranges are constructed, any two of the metric (empty ones included),
\* and one of the methods is called on the first with the second as argument.
InitRange ==
    /\ list = <<>>
    /\ tree = Nil
    /\ last = "none"
    /\ done \in {<<[this |-> a, that |-> b]>> : a \in AllRanges, b \in AllRanges}
    /\ order = <<>>

\* a.left_edge_relationship(b)
LeftEdgeRelationship ==
    /\ Len(done) = 1
    /\ done' = Append(done, [result |-> left_edge_relationship(done[1].this, done[1].that)])
    /\ last' = "left_edge_relationship"
    /\ UNCHANGED <<list, tree, order>>

\* a.has_intersection_with(b)
HasIntersectionWith ==
    /\ Len(done) = 1
    /\ done' = Append(done, [result |-> has_intersection_with(done[1].this, done[1].that)])
    /\ last' = "has_intersection_with"
    /\ UNCHANGED <<list, tree, order>>

\* a.is_superset_of(b)
IsSupersetOf ==
    /\ Len(done) = 1
    /\ done' = Append(done, [result |-> is_superset_of(done[1].this, done[1].that)])
    /\ last' = "is_superset_of"
    /\ UNCHANGED <<list, tree, order>>

\* a.is_subset_of(b)
IsSubsetOf ==
    /\ Len(done) = 1
    /\ done' = Append(done, [result |-> is_subset_of(done[1].this, done[1].that)])
    /\ last' = "is_subset_of"
    /\ UNCHANGED <<list, tree, order>>

\* a.relationship(b)
Relationship ==
    /\ Len(done) = 1
    /\ done' = Append(done, [result |-> relationship(done[1].this, done[1].that)])
    /\ last' = "relationship"
    /\ UNCHANGED <<list, tree, order>>

\* a.hull(b)
Hull ==
    /\ Len(done) = 1
    /\ done' = Append(done, [result |-> hull(done[1].this, done[1].that)])
    /\ last' = "hull"
    /\ UNCHANGED <<list, tree, order>>

\* a |= b; the result is a after the assignment.
HullAssign ==
    /\ Len(done) = 1
    /\ done' = Append(done, [result |-> hull_assign(done[1].this, done[1].that)])
    /\ last' = "hull_assign"
    /\ UNCHANGED <<list, tree, order>>

SpecRange ==
    InitRange /\ [][LeftEdgeRelationship \/ HasIntersectionWith \/ IsSupersetOf
                     \/ IsSubsetOf \/ Relationship \/ Hull \/ HullAssign]_vars

\* The relation of a's right edge to b's left edge, for non-empty a and b:
\* ADJ when a.max + 1 = b.min, GAP when a.max + 1 < b.min, OVLP when
\* a.min < b.min <= a.max, NONE otherwise.
RightEdgeToLeftEdge(a, b) ==
    IF a.max + 1 = b.min THEN "ADJ"
    ELSE IF a.max + 1 < b.min THEN "GAP"
    ELSE IF a.min < b.min /\ b.min <= a.max THEN "OVLP"
    ELSE "NONE"

\* C19: for non-empty ranges a and b, a.left_edge_relationship(b) returns ADJ
\* iff a.max + 1 = b.min, GAP iff a.max + 1 < b.min, OVLP iff
\* a.min < b.min <= a.max, and NONE otherwise.
C19_LeftEdgeRelationship ==
    (/\ last = "left_edge_relationship"
     /\ ~empty(done[1].this)
     /\ ~empty(done[1].that))
        => done[2].result = RightEdgeToLeftEdge(done[1].this, done[1].that)

\* C20: for all ranges a and b, empty ones included, a.has_intersection_with(b)
\* returns true iff some metric value is contained in both a and b.
C20_HasIntersectionWith ==
    (last = "has_intersection_with")
        => (done[2].result <=>
              \E m \in Metric : contains(done[1].this, m) /\ contains(done[1].that, m))

\* C20 restricted to non-empty a and b.
C20_NonEmptyOnly ==
    (/\ last = "has_intersection_with"
     /\ ~empty(done[1].this)
     /\ ~empty(done[1].that))
        => (done[2].result <=>
              \E m \in Metric : contains(done[1].this, m) /\ contains(done[1].that, m))

\* The values of the metric a range contains.
Values(r) == {m \in Metric : contains(r, m)}

\* C21: for all ranges a and b, empty ones included, a.is_subset_of(b) is
\* true iff every value in a is in b, and a.is_superset_of(b) is true iff
\* every value in b is in a.
C21_SubsetSuperset ==
    /\ (last = "is_subset_of") =>
          (done[2].result <=> Values(done[1].this) \subseteq Values(done[1].that))
    /\ (last = "is_superset_of") =>
          (done[2].result <=> Values(done[1].that) \subseteq Values(done[1].this))

\* C21 restricted to non-empty a and b.
C21_NonEmptyOnly ==
    (~empty(done[1].this) /\ ~empty(done[1].that)) => C21_SubsetSuperset

\* The classification of two non-empty ranges by the values they contain.
Classification(a, b) ==
    IF a = b THEN "EQUAL"
    ELSE IF Values(a) \subseteq Values(b) THEN "SUBSET"
    ELSE IF Values(b) \subseteq Values(a) THEN "SUPERSET"
    ELSE IF Values(a) \cap Values(b) # {} THEN "OVERLAP"
    ELSE IF a.max + 1 = b.min \/ b.max + 1 = a.min THEN "ADJACENT"
    ELSE "NONE"

\* C22: for non-empty ranges a and b, a.relationship(b) is EQUAL iff a = b,
\* SUBSET iff a is a strict subset of b, SUPERSET iff a is a strict superset
\* of b, OVERLAP iff they share a value and neither contains the other,
\* ADJACENT iff they share no value and one ends one step before the other
\* begins, and NONE otherwise.
C22_Relationship ==
    (/\ last = "relationship"
     /\ ~empty(done[1].this)
     /\ ~empty(done[1].that))
        => done[2].result = Classification(done[1].this, done[1].that)

\* relationship has been called on two non-empty ranges of which the second
\* begins one step after MAX - 1, the last value the first can end at.
C22_AdjacentAtTop ==
    /\ last = "relationship"
    /\ done[1].this.min < done[1].this.max
    /\ done[1].this.max + 1 = done[1].that.min
    /\ done[1].that.max = MAX
    /\ done[2].result = "ADJACENT"

\* a.hull(b) = h is the smallest range containing every value of a and of b.
SmallestContaining(a, b, h) ==
    /\ Values(a) \cup Values(b) \subseteq Values(h)
    /\ \A r \in AllRanges :
          (Values(a) \cup Values(b) \subseteq Values(r)) => Values(h) \subseteq Values(r)

\* C23: for all ranges a and b, a.hull(b) is the smallest range containing
\* every value of a and of b, an empty operand is the identity
\* (hull(empty, b) = b, hull(a, empty) = a), and a |= b leaves a equal to
\* a.hull(b).
C23_HullAsClaimed ==
    /\ (last = "hull") =>
          /\ SmallestContaining(done[1].this, done[1].that, done[2].result)
          /\ empty(done[1].this) => done[2].result = done[1].that
          /\ empty(done[1].that) => done[2].result = done[1].this
    /\ (last = "hull_assign") =>
          done[2].result = hull(done[1].this, done[1].that)

\* C23 as amended: as above, but hull(a, empty) = a is for a non-empty a;
\* when both operands are empty the result is b (an empty range, whose
\* bounds need not be those of a).
C23_Hull ==
    /\ (last = "hull") =>
          /\ SmallestContaining(done[1].this, done[1].that, done[2].result)
          /\ empty(done[1].this) => done[2].result = done[1].that
          /\ (empty(done[1].that) /\ ~empty(done[1].this))
                => done[2].result = done[1].this
    /\ (last = "hull_assign") =>
          done[2].result = hull(done[1].this, done[1].that)

\* hull has been called on two empty ranges with different bounds.
C23_BothEmpty ==
    /\ last = "hull"
    /\ empty(done[1].this)
    /\ empty(done[1].that)
    /\ done[1].this # done[1].that
    /\ done[2].result = done[1].that

\* ------------------------------------------------------------------ mark, max_plus_1 and min_minus_1 given
\* mark as the code runs when max_plus_1 and min_minus_1 hold the given
\* values, whatever ++ and -- made of them; the list the call leaves.
\* The loop of mark.
RECURSIVE mark_sweep_given(_, _, _, _, _, _)
mark_sweep_given(s, x, n, range, payload, max_plus_1) ==
    IF n = 0 THEN s
    ELSE IF s[n].max <= range.max
      THEN LET s2 == remove(s, n)
           IN  mark_sweep_given(s2, IF x > n THEN x - 1 ELSE x,
                                IF n > Len(s2) THEN 0 ELSE n, range, payload, max_plus_1)
    ELSE IF max_plus_1 < s[n].min
      THEN s
    ELSE IF s[n].payload = payload
      THEN LET s2 == remove([s EXCEPT ![x].max = s[n].max], n)
           IN  mark_sweep_given(s2, IF x > n THEN x - 1 ELSE x,
                                IF n > Len(s2) THEN 0 ELSE n, range, payload, max_plus_1)
    ELSE IF s[n].min <= range.max
      THEN [s EXCEPT ![n].min = max_plus_1]
    ELSE s

\* The code of mark before the loop, then the loop.
mark_given(s, n, range, payload, max_plus_1, min_minus_1) ==
    LET fresh == Node(range.min, range.max, payload)
        p == prev(s, n)
        y == next(s, n)
    IN  IF n # 0 /\ s[n].min = range.min
          THEN IF p # 0 /\ s[p].payload = payload /\ s[p].max = min_minus_1
                 THEN mark_sweep_given([s EXCEPT ![p].max = range.max], p, n,
                                       range, payload, max_plus_1)
               ELSE IF s[n].max <= range.max
                 THEN mark_sweep_given([s EXCEPT ![n].max = range.max, ![n].payload = payload],
                                       n, y, range, payload, max_plus_1)
               ELSE IF s[n].payload = payload
                 THEN s
               ELSE insert_before([s EXCEPT ![n].min = max_plus_1], n, fresh)
        ELSE IF n # 0 /\ s[n].payload = payload /\ s[n].max >= min_minus_1
          THEN IF s[n].max >= range.max
                 THEN s
                 ELSE mark_sweep_given([s EXCEPT ![n].max = range.max], n, y,
                                       range, payload, max_plus_1)
        ELSE IF n # 0 /\ s[n].max <= range.max
          THEN IF s[n].max < range.min /\ y # 0 /\ s[y].max <= range.max
                 THEN mark_sweep_given([s EXCEPT ![y] = fresh], y, next(s, y),
                                       range, payload, max_plus_1)
               ELSE LET s1 == IF s[n].max >= range.min
                                THEN [s EXCEPT ![n].max = min_minus_1] ELSE s
                    IN  IF y # 0
                          THEN mark_sweep_given(insert_before(s1, y, fresh), y, y + 1,
                                                range, payload, max_plus_1)
                          ELSE append(s1, fresh)
        ELSE IF n # 0
          THEN insert_after(insert_after([s EXCEPT ![n].max = min_minus_1], n, fresh),
                            n + 1, Node(max_plus_1, s[n].max, s[n].payload))
        ELSE IF Len(s) > 0 /\ s[1].payload = payload
                /\ (s[1].max <= range.max \/ s[1].min <= max_plus_1)
          THEN mark_sweep_given([s EXCEPT ![1].min = range.min,
                                          ![1].max = IF @ < range.max THEN range.max ELSE @],
                                1, next(s, 1), range, payload, max_plus_1)
        ELSE mark_sweep_given(prepend(s, fresh), 1, IF Len(s) > 0 THEN 2 ELSE 0,
                              range, payload, max_plus_1)

\* C24: in mark, max_plus_1 is read only where a stored node has
\* max > range.max and min_minus_1 only where a node with min < range.min
\* or a predecessor exists; so mark leaves what it would leave with
\* unbounded arithmetic (max_plus_1 = range.max + 1, min_minus_1 =
\* range.min - 1), and where the ++ or the -- has wrapped (range.max = MAX,
\* range.min = MIN) the value it left plays no part in the result.
C24_MarkBoundarySafe ==
    Canonical(list) =>
        \A r \in Ranges, p \in Payload :
            LET n == lower_bound(list, tree, r.min)
            IN  /\ AfterMark(r, p) = mark_given(list, n, r, p, r.max + 1, r.min - 1)
                /\ (r.max = MAX) =>
                      \A v \in Metric :
                          mark_given(list, n, r, p, v, r.min - 1) = AfterMark(r, p)
                /\ (r.min = MIN) =>
                      \A v \in Metric :
                          mark_given(list, n, r, p, r.max + 1, v) = AfterMark(r, p)

\* A mark whose range ends at MAX runs the loop over stored nodes and drops
\* at least one, and a mark whose range starts at MIN meets a stored node
\* that starts at MIN.
C24_MarkAtTheEnds ==
    /\ Canonical(list)
    /\ Len(list) >= 2
    /\ list[1].min = MIN
    /\ \E r \in Ranges, p \in Payload :
          r.max = MAX /\ r.min > MIN /\ Len(AfterMark(r, p)) < Len(list)
    /\ \E r \in Ranges, p \in Payload :
          r.min = MIN /\ r.max < MAX /\ AfterMark(r, p) # list

\* blend(r, color, b) in the current state has left its loop at the end
\* of the list (it has not returned from inside the loop).
ReachesTail(r, color, b) == "exit" \in DOMAIN blend(list, tree, r, color, b)

\* The range the code after the loop has added to the list s it found: the
\* range of the appended node, or what the tail node has gained.
TailAdded(s, after) ==
    IF Len(after) > Len(s)
      THEN range_of(after[Len(after)])
      ELSE Range(s[Len(s)].max + 1, after[Len(after)].max)

\* C25: whenever blend reaches the code after its loop and extends the tail
\* node or appends a node, the range it adds is non-empty, lies in the
\* argument range and starts above the max of every node of the space; with
\* range.max = MAX and a node reaching MAX in the list, it adds nothing.
C25_TailAddsAboveAll ==
    Canonical(list) =>
        \A r \in Ranges, bc \in BlendCalls :
            ReachesTail(r, bc[2], bc[1]) =>
                LET res == blend(list, tree, r, bc[2], bc[1])
                    s == res.exit.list
                    added == TailAdded(s, res.list)
                IN  /\ (res.list # s) =>
                          /\ ~empty(added)
                          /\ r.min <= added.min /\ added.max <= r.max
                          /\ \A i \in 1..Len(s) : s[i].max < added.min
                    /\ (r.max = MAX /\ \E i \in 1..Len(s) : s[i].max = MAX)
                          => res.list = s

\* The nodes of the list that start at or before m.
StartingAtOrBefore(m) == {i \in 1..Len(list) : list[i].min <= m}

\* C26: in every state reached by mark and fill with non-empty ranges,
\* lower_bound(m) returns the node with the greatest min among the nodes
\* with min <= m, and nullptr iff every node has min > m.
C26_LowerBound ==
    \A m \in Metric :
        LET k == lower_bound(list, tree, m)
        IN  IF StartingAtOrBefore(m) = {}
              THEN k = 0
              ELSE /\ k \in StartingAtOrBefore(m)
                   /\ \A i \in StartingAtOrBefore(m) : list[i].min <= list[k].min

\* Some unmapped m lies between two nodes of a list of three or more, and
\* lower_bound(m) is the node before it, which is neither the first nor the
\* last node.
C26_BetweenNodes ==
    /\ Len(list) >= 3
    /\ \E m \in Metric :
          /\ ~Mapped(list, m)
          /\ lower_bound(list, tree, m) > 1
          /\ lower_bound(list, tree, m) < Len(list)

\* ------------------------------------------------------------------ the mutation primitives
\* prepend, append, insert_before, insert_after and remove, called one after
\* another on a space whose nodes are named 1..MaxNodes: list holds the
\* names in list order, order the names in the in-order sequence of the
\* tree, and tree the shape and colours.
\* The index of the node named id in the sequence seq.
IndexOf(seq, id) == CHOOSE i \in 1..Len(seq) : seq[i] = id

\* The subtree whose root is the node at in-order position k (off is the
\* number of nodes before the subtree t).
RECURSIVE SubtreeAt(_, _, _)
SubtreeAt(t, off, k) ==
    LET here == off + Size(t[2]) + 1
    IN  IF k < here THEN SubtreeAt(t[2], off, k)
        ELSE IF k > here THEN SubtreeAt(t[3], here, k)
        ELSE t

\* left(n) and right(n) of the node at in-order position k.
left(t, k) == SubtreeAt(t, 0, k)[2]
right(t, k) == SubtreeAt(t, 0, k)[3]

\* A child slot of a node: the node's name and the direction.
Slot(id, dir) == [node |-> id, dir |-> dir]

\* insert_before as it would be if the node always went to the left of spot.
insert_before_slot_left(s, t, ids, i) == Slot(s[i], "LEFT")

\* insert_before: where the node is attached, spot being the node s[i].
insert_before_slot(s, t, ids, i) ==
    IF left(t, IndexOf(ids, s[i])) = Nil
      THEN Slot(s[i], "LEFT")
      ELSE Slot(s[prev(s, i)], "RIGHT")

\* insert_after: where the node is attached, spot being the node s[i].
insert_after_slot(s, t, ids, i) ==
    IF right(t, IndexOf(ids, s[i])) = Nil
      THEN Slot(s[i], "RIGHT")
      ELSE Slot(s[next(s, i)], "LEFT")

\* prepend and append in a space that has a root.
prepend_slot(s) == Slot(s[head(s)], "LEFT")
append_slot(s) == Slot(s[tail(s)], "RIGHT")

\* RBNode::set_child(node, dir) on the node at in-order position k: the
\* in-order sequence of the names afterwards.  What hung at the slot before
\* is no longer reached.
RECURSIVE InOrderAfter(_, _, _, _, _, _)
InOrderAfter(t, ids, off, k, dir, node) ==
    IF t = Nil THEN <<>>
    ELSE LET here == off + Size(t[2]) + 1
         IN  (IF here = k /\ dir = "LEFT" THEN <<node>>
              ELSE InOrderAfter(t[2], ids, off, k, dir, node))
             \o <<ids[here]>>
             \o (IF here = k /\ dir = "RIGHT" THEN <<node>>
                 ELSE InOrderAfter(t[3], ids, here, k, dir, node))

\* RBNode::set_child(node, dir) on the node at in-order position k, then
\* rebalance_after_insert from the new node up: the shape afterwards.
RECURSIVE SetChildFix(_, _, _, _)
SetChildFix(t, off, k, dir) ==
    LET here == off + Size(t[2]) + 1
    IN  IF k < here THEN InsertFix(<<t[1], SetChildFix(t[2], off, k, dir), t[3]>>)
        ELSE IF k > here THEN InsertFix(<<t[1], t[2], SetChildFix(t[3], here, k, dir)>>)
        ELSE IF dir = "LEFT" THEN InsertFix(<<t[1], <<"R", Nil, Nil>>, t[3]>>)
        ELSE InsertFix(<<t[1], t[2], <<"R", Nil, Nil>>>>)

\* A node not in the space.
FreeNodes == {id \in 1..MaxNodes : \A i \in 1..Len(list) : list[i] # id}

\* The tree after the node is attached at the slot and the tree rebalanced.
Attach(slot, node) ==
    /\ tree' = Blacken(SetChildFix(tree, 0, IndexOf(order, slot.node), slot.dir))
    /\ order' = InOrderAfter(tree, order, 0, IndexOf(order, slot.node), slot.dir, node)

\* The first node of a space: _root = node.
AttachRoot(node) ==
    /\ tree' = <<"B", Nil, Nil>>
    /\ order' = <<node>>

Prepend ==
    \E node \in FreeNodes :
        /\ IF tree = Nil THEN AttachRoot(node) ELSE Attach(prepend_slot(list), node)
        /\ list' = prepend(list, node)
        /\ last' = "prepend"
        /\ done' = done

AppendNode ==
    \E node \in FreeNodes :
        /\ IF tree = Nil THEN AttachRoot(node) ELSE Attach(append_slot(list), node)
        /\ list' = append(list, node)
        /\ last' = "append"
        /\ done' = done

InsertBefore ==
    \E node \in FreeNodes, i \in 1..Len(list) :
        /\ Attach(insert_before_slot(list, tree, order, i), node)
        /\ list' = insert_before(list, i, node)
        /\ last' = "insert_before"
        /\ done' = done

InsertAfter ==
    \E node \in FreeNodes, i \in 1..Len(list) :
        /\ Attach(insert_after_slot(list, tree, order, i), node)
        /\ list' = insert_after(list, i, node)
        /\ last' = "insert_after"
        /\ done' = done

Remove ==
    \E i \in 1..Len(list) :
        /\ tree' = TreeRemove(tree, IndexOf(order, list[i]))
        /\ order' = RemoveAt(order, IndexOf(order, list[i]))
        /\ list' = remove(list, i)
        /\ last' = "remove"
        /\ done' = done

SpecPrimitives ==
    Init /\ [][Prepend \/ AppendNode \/ InsertBefore \/ InsertAfter \/ Remove]_vars

\* C27: after any sequence of prepend, append, insert_before, insert_after
\* and remove, the list visits exactly the nodes of the tree, in the tree's
\* in-order sequence.
C27_ListIsInOrder == order = list /\ Size(tree) = Len(list)

\* insert_before has put a node in a tree whose root has both children:
\* some spot had a left child, and the node went to the right of spot->_prev.
C27_InsertedBelowPrev ==
    /\ last = "insert_before"
    /\ Len(list) = MaxNodes
    /\ tree[2] # Nil /\ tree[3] # Nil

\* The links a mutation has made all carry nodes made with _fa.make.
AllFromArena(res) == \A k \in 1..Len(res.ev) : Len(res.ev[k]) = 2

\* C28: every node stored in the space was allocated from the space's
\* arena, on every insertion path of mark and fill (so remove() hands back
\* to the arena only nodes that came from it).
C28_NodesFromArena ==
    Canonical(list) =>
        \A r \in Ranges, p \in Payload :
            /\ AllFromArena(mark(list, tree, r, p))
            /\ AllFromArena(fill(list, tree, r, p))

\* C28 for mark alone, and for fill alone.
C28_MarkFromArena ==
    Canonical(list) =>
        \A r \in Ranges, p \in Payload : AllFromArena(mark(list, tree, r, p))
C28_FillFromArena ==
    Canonical(list) =>
        \A r \in Ranges, p \in Payload : AllFromArena(fill(list, tree, r, p))

\* C29: blend(r, color, blender) on a canonical space leaves the mapping of
\* every metric value outside r unchanged: an unmapped one stays unmapped
\* and a mapped one keeps its payload.
C29_BlendFrame ==
    Canonical(list) =>
        \A r \in Ranges, bc \in BlendCalls : \A m \in OutOfRange(r) :
            PayloadsAt(AfterBlend(r, bc[2], bc[1]), m) = PayloadsAt(list, m)

\* C30: every metric value outside r that is unmapped before fill(r, p) on a
\* canonical space is unmapped after it.
C30_FillFrameUnmapped ==
    Canonical(list) =>
        \A r \in Ranges, p \in Payload : \A m \in OutOfRange(r) :
            ~Mapped(list, m) => ~Mapped(AfterFill(r, p), m)

\* A canonical space and a fill that stretches a node of the same payload
\* to the end of its range, with unmapped values on both sides of the range.
C30_FillStretchesBetweenGaps ==
    /\ Canonical(list)
    /\ \E r \in Ranges, p \in Payload :
          /\ r.min > MIN /\ r.max < MAX
          /\ ~Mapped(list, r.min - 1)
          /\ ~Mapped(list, r.max + 1)
          /\ \E i \in 1..Len(list) :
                /\ list[i].payload = p
                /\ contains(r, list[i].min)
                /\ list[i].max < r.max
          /\ Len(AfterFill(r, p)) = Len(list)
          /\ AfterFill(r, p) # list

\* C31: on a canonical space, for a non-empty range r none of whose values
\* is mapped, fill(r, p) and mark(r, p) leave the same sequence of
\* (range, payload) nodes.
C31_FillIsMarkOnUnmapped ==
    Canonical(list) =>
        \A r \in Ranges, p \in Payload :
            (\A m \in InRange(r) : ~Mapped(list, m)) => AfterFill(r, p) = AfterMark(r, p)

\* A canonical space and an unmapped range of two or more values with nodes
\* of payload p next to it on both sides, which fill and mark join to one.
C31_UnmappedBetweenEqual ==
    /\ Canonical(list)
    /\ \E r \in Ranges, p \in Payload :
          /\ r.min < r.max
          /\ \A m \in InRange(r) : ~Mapped(list, m)
          /\ \E i \in 1..(Len(list) - 1) :
                /\ list[i].payload = p /\ list[i].max + 1 = r.min
                /\ list[i + 1].payload = p /\ r.max + 1 = list[i + 1].min
          /\ Len(AfterFill(r, p)) = Len(list) - 1

\* The loop tests of one call, in order: at each, the number of nodes from
\* the cursor to the end of the list.
Walk(res) ==
    LET at == SelectSeq(res.ev, LAMBDA e : e[1] = "at")
    IN  [k \in 1..Len(at) |-> at[k][2]]

\* Each loop test finds the cursor strictly nearer the end of the list than
\* the test before, and the last one is followed by nothing.
Advances(w) == \A k \in 1..(Len(w) - 1) : w[k + 1] < w[k]

\* C32: every call of mark, fill and blend on a finite space terminates:
\* each iteration of the walk over the successors returns or moves the
\* cursor to a node strictly later in the list, also after the cursor's
\* node was removed or a stub was put after it.
C32_WalkAdvances ==
    Canonical(list) =>
        \A r \in Ranges :
            /\ \A p \in Payload :
                  /\ Advances(Walk(mark(list, tree, r, p)))
                  /\ Advances(Walk(fill(list, tree, r, p)))
            /\ \A bc \in BlendCalls :
                  Advances(Walk(blend(list, tree, r, bc[2], bc[1])))

\* A canonical space in which some mark, some fill and some blend each go
\* three or more times through the loop, the list changing length on the way.
C32_LongWalks ==
    /\ Canonical(list)
    /\ \E r \in Ranges, p \in Payload :
          /\ Len(Walk(mark(list, tree, r, p))) >= 3
          /\ Len(AfterMark(r, p)) < Len(list)
    /\ \E r \in Ranges, p \in Payload :
          /\ Len(Walk(fill(list, tree, r, p))) >= 3
          /\ Len(AfterFill(r, p)) # Len(list)
    /\ \E r \in Ranges, bc \in BlendCalls :
          /\ Len(Walk(blend(list, tree, r, bc[2], bc[1]))) >= 3
          /\ Len(AfterBlend(r, bc[2], bc[1])) # Len(list)

\* By how many nodes mark(r, p) makes the list longer.
MarkGrowth(r, p) == Len(AfterMark(r, p)) - Len(list)

\* r lies strictly inside the node n, which has another payload than p.
StrictlyInside(r, n, p) == n.min < r.min /\ r.max < n.max /\ n.payload # p

\* The node n lies entirely inside r.
InsideOf(n, r) == r.min <= n.min /\ n.max <= r.max

\* The node n has payload p and overlaps r or is adjacent to it.
EqualAndTouching(n, r, p) ==
    /\ n.payload = p
    /\ n.min <= r.max + 1
    /\ r.min <= n.max + 1

=============================================================================
